---- MODULE Spec2Model ----
(***************************************************************************)
(* Model of tiny-lm's wiki-dump pipeline:                                  *)
(*   wiki_train.py     sliding-window reader over the raw 16-bit token     *)
(*                     cache, its JSON checkpoint and the training loop    *)
(*   wiki_tokenize.py  multistream index, block walker, tokenization       *)
(*                     driver and its block checkpoint                     *)
(*   parse-tokenize.py its length-prefixed cache and article-indexed       *)
(*                     reader with a (page_index, buffer) checkpoint       *)
(* The training side and the tokenization side are separate programs; each *)
(* has its own specification over the shared variable list (the variables  *)
(* of the other program stay as Init leaves them).                         *)
(* Pure functions (index loading, encoding, the cache round trip) have a   *)
(* specification each that applies them to enumerated arguments.           *)
(***************************************************************************)
EXTENDS Integers, Sequences, FiniteSets, TLC

VARIABLES
    \* ---- wiki_train.py
    toks,         \* the tokens the cache was built from (history, fixed by Init)
    cache,        \* TOKENS_FILE: a sequence of bytes
    CHUNK_SIZE,   \* bytes per f.read (even, see wiki_train.py:18)
    ckptFile,     \* TRAIN_CHECKPOINT: Absent, or the JSON pieces written so far
    pc,           \* position of the training process
    file_offset,  \* training_stream's local file_offset
    buffer,       \* the deque (shared by the generator and the loop body)
    fpos,         \* position of the open file f
    chunk_bytes,  \* training_stream's local chunk_bytes
    seq,          \* training_stream's local seq
    step,         \* enumerate counter of the training loop
    bound,        \* TRUE once the loop has bound x, y, offset, buffer
    offset,       \* the loop's name `offset`
    saveRet,      \* who called save_checkpoint: "loop" or "handler"
    emitted,      \* history: windows delivered by the current stream
    base,         \* history: windows delivered before the checkpoint resumed from
    ckptK,        \* history: windows delivered when the checkpoint was saved
    hsaves,       \* history: completed saves of the interrupt handler, this process
    saved,        \* history: the (file_offset, buffer) pairs of completed saves
    runs,         \* history: number of process starts
    taken,        \* history: the buffer when the last window was taken
    \* ---- wiki_tokenize.py
    dump,              \* XML_PATH: the blocks of the dump, in file order
    indexLines,        \* INDEX_PATH: the offset field of every index line
    tokCkpt,           \* TOKENIZE_CHECKPOINT: Absent, or the JSON pieces written
    tpc,               \* position of the tokenization process
    offsets,           \* build_token_cache's offsets
    start_block,       \* build_token_cache's start_block
    block_idx,         \* stream_pages_multistream's block_idx
    items,             \* pages of the current block iterparse has yet to yield
    pageNo,            \* history: pages yielded from the current block
    current_block_idx, \* build_token_cache's current_block_idx
    truns,             \* history: number of starts of the tokenization process
    written,           \* history: (block, page) of every record appended to the cache
    walked,            \* history: what the block walker yielded, this process
    inflight,          \* history: the blocks in flight when a process crashed
    reran,             \* history: TRUE once a completed pass was started again
    \* ---- parse-tokenize.py (its reader also uses cache, ckptFile, pc, buffer,
    \*      fpos, seq, emitted, base, ckptK, saved and runs above)
    page_idx,          \* training_stream's page_idx
    start_page,        \* training_stream's start_page
    tokens,            \* training_stream's tokens: what load_tokens returned
    \* ---- functions applied to an argument
    arg,               \* the argument
    ret,               \* the value returned
    recs,              \* the token records handed to the cache writer
    wr,                \* records written so far
    tokfile,           \* the cache file written: a sequence of bytes
    rpos,              \* position of the file opened for reading
    fpc                \* "call" before the application, "return" after it

trainVars == <<toks, cache, CHUNK_SIZE, ckptFile, pc, file_offset, buffer, fpos,
               chunk_bytes, seq, step, bound, offset, saveRet, emitted, base,
               ckptK, hsaves, saved, runs, taken>>

\* The training process's variables but the cache file.
trainLocal == <<toks, CHUNK_SIZE, ckptFile, pc, file_offset, buffer, fpos,
                chunk_bytes, seq, step, bound, offset, saveRet, emitted, base,
                ckptK, hsaves, saved, runs, taken>>

tokVars == <<dump, indexLines, tokCkpt, tpc, offsets, start_block, block_idx, items,
             pageNo, current_block_idx, truns, written, walked, inflight, reran>>

ptVars == <<page_idx, start_page, tokens>>

fnVars == <<arg, ret, recs, wr, tokfile, rpos, fpc>>

auxVars == <<ptVars, fnVars>>

vars == <<trainVars, tokVars, auxVars>>

\* ------------------------------------------------------------------ bounds
\* Context length of the model (the program uses 256, wiki_train.py:16).
CONTEXT_LEN == 4
\* Longest cache, in tokens.
MaxTokens == 8
\* Largest chunk of one read, in tokens (the program reads 65536 tokens).
MaxChunkTokens == 3
\* Process starts per behaviour.
MaxRuns == 2
\* Longest dump of the tokenization runs, in blocks.
MaxBlocks == 11
\* Longest dump of the block walker runs, in blocks.
MaxWalkBlocks == 3
\* Longest index file of the index loader runs, in lines.
MaxIndexLines == 3
\* Longest text of the document_to_tokens runs, in characters.
MaxTextLen == 3
\* Most records of a length-prefixed cache.
MaxRecords == 3
\* Starts of the tokenization process per behaviour.
MaxTokRuns == 2
\* Checkpoint cadence of the training loop (the program uses 1000, wiki_train.py:111).
SaveEvery == 2

EOS_TOKEN == 256
\* Blocks between two tokenization checkpoints (wiki_tokenize.py:171).
CHECKPOINT_EVERY == 10
\* Shortest text kept (the program uses 200, wiki_tokenize.py:20).
MIN_ARTICLE_CHARS == 2

Min(a, b) == IF a < b THEN a ELSE b
Max(a, b) == IF a > b THEN a ELSE b

\* ------------------------------------------------------------ token cache
\* array.array('H').tofile: every token as two bytes, low byte first.
TokenBytes(t) == <<t % 256, (t \div 256) % 256>>

RECURSIVE ToFile(_)
ToFile(ts) == IF ts = <<>> THEN <<>> ELSE TokenBytes(Head(ts)) \o ToFile(Tail(ts))

\* Mutant of FromBytes: the high byte first.
FromBytes_high_byte_first(bs) ==
    [i \in 1..(Len(bs) \div 2) |-> 256 * bs[2 * i - 1] + bs[2 * i]]

\* array.array('H').frombytes: pairs of bytes back to unsigned shorts.
FromBytes(bs) == [i \in 1..(Len(bs) \div 2) |-> bs[2 * i - 1] + 256 * bs[2 * i]]

\* f.read(n) at position p: at most n bytes, fewer only at the end of the file.
FileRead(f, p, n) == SubSeq(f, p + 1, Min(p + n, Len(f)))

\* The caches of the model: n tokens, an EOS closing every record of e tokens
\* (n = 7, e = 7 is the cache 10, 20, 30, 40, 50, 60, 256).
RecordLengths == {2, 3, 7}
CacheTokens(n, e) == [i \in 1..n |-> IF i % e = 0 THEN EOS_TOKEN ELSE 10 * i]

\* --------------------------------------- length-prefixed cache (parse-tokenize)
\* What load_tokens returns: None, or a list of tokens.
None == [none |-> TRUE, tokens |-> <<>>]
List(ts) == [none |-> FALSE, tokens |-> ts]

\* struct.pack("I", n): four bytes, low byte first.
Pack32(n) == <<n % 256, (n \div 256) % 256, (n \div 65536) % 256, (n \div 16777216) % 256>>

\* struct.unpack("I", raw)[0]
Unpack32(raw) == raw[1] + 256 * raw[2] + 65536 * raw[3] + 16777216 * raw[4]

RECURSIVE PackAll(_)
\* struct.pack(f"{len(tokens)}I", *tokens)
PackAll(ts) == IF ts = <<>> THEN <<>> ELSE Pack32(Head(ts)) \o PackAll(Tail(ts))

\* save_tokens(f, tokens): the bytes appended to f.
save_tokens(ts) == Pack32(Len(ts)) \o PackAll(ts)

\* load_tokens(f) at position p: None at the end of the file, else the record
\* and the position after it; struct.error on a short read.
load_tokens(f, p) ==
    LET raw == FileRead(f, p, 4) IN
    IF raw = <<>> THEN [raised |-> FALSE, value |-> None, pos |-> p]
    ELSE IF Len(raw) < 4 THEN [raised |-> TRUE, value |-> None, pos |-> p + Len(raw)]
    ELSE LET length == Unpack32(raw)
             data == FileRead(f, p + 4, 4 * length)
         IN IF Len(data) < 4 * length
            THEN [raised |-> TRUE, value |-> None, pos |-> p + 4 + Len(data)]
            ELSE [raised |-> FALSE,
                  value |-> List([i \in 1..length |->
                                     Unpack32(SubSeq(data, 4 * i - 3, 4 * i))]),
                  pos |-> p + 4 + 4 * length]

\* ------------------------------------------------------- train checkpoint
Absent == "absent"

\* json.dump of {"file_offset": ..., "buffer": [...]}: the text, in the pieces
\* the encoder writes it in.
JsonText(off, buf) ==
    << <<"{", "file_offset", off>>, <<",", "buffer", buf>>, <<"}">> >>

\* json.load: a dict when the text is a complete object, else JSONDecodeError.
JsonLoad(text) ==
    IF Len(text) >= 2 /\ text[1][1] = "{" /\ text[Len(text)] = <<"}">>
    THEN [ok |-> TRUE,
          dict |-> [i \in 1..(Len(text) - 1) |-> [key |-> text[i][2], val |-> text[i][3]]]]
    ELSE [ok |-> FALSE, dict |-> <<>>]

\* dict.get(key, default)
DictGet(d, key, default) ==
    IF \E i \in 1..Len(d) : d[i].key = key
    THEN LET i == CHOOSE j \in 1..Len(d) : d[j].key = key IN d[i].val
    ELSE default

\* Mutant of load_checkpoint: on a file that is not JSON the cursor is salvaged
\* from the text when it is there.
load_checkpoint_salvage(file) ==
    IF file = Absent
    THEN [file_offset |-> 0, buffer |-> <<>>]
    ELSE LET r == JsonLoad(file) IN
         IF r.ok
         THEN [file_offset |-> DictGet(r.dict, "file_offset", 0),
               buffer |-> DictGet(r.dict, "buffer", <<>>)]
         ELSE IF Len(file) >= 1
              THEN [file_offset |-> file[1][3], buffer |-> <<>>]
              ELSE [file_offset |-> 0, buffer |-> <<>>]

\* load_checkpoint(): (0, []) when the file is absent or is not JSON.
load_checkpoint(file) ==
    IF file = Absent
    THEN [file_offset |-> 0, buffer |-> <<>>]
    ELSE LET r == JsonLoad(file) IN
         IF r.ok
         THEN [file_offset |-> DictGet(r.dict, "file_offset", 0),
               buffer |-> DictGet(r.dict, "buffer", <<>>)]
         ELSE [file_offset |-> 0, buffer |-> <<>>]

\* Mutant of save_checkpoint: only the cursor is persisted.
save_checkpoint_cursor_only(off, buf) == JsonText(off, <<>>)

\* save_checkpoint(file_offset, buffer), run to completion: the file it leaves.
save_checkpoint(off, buf) == JsonText(off, buf)

\* ------------------------------------------------ training_stream, as a whole
\* The refill loop (while len(buffer) < CONTEXT_LEN + 1) from file position and
\* file_offset `off` with buffer `buf`: the state it leaves, or eof.
RECURSIVE Refill(_, _, _, _)
Refill(f, n, off, buf) ==
    IF Len(buf) >= CONTEXT_LEN + 1
    THEN [eof |-> FALSE, off |-> off, buf |-> buf]
    ELSE LET chunk == FileRead(f, off, n) IN
         IF chunk = <<>>
         THEN [eof |-> TRUE, off |-> off, buf |-> buf]
         ELSE Refill(f, n, off + Len(chunk), buf \o FromBytes(chunk))

\* One window: x = seq[:-1], y = seq[1:] of the first CONTEXT_LEN + 1 values.
Window(s) == [x |-> SubSeq(s, 1, Len(s) - 1), y |-> SubSeq(s, 2, Len(s))]

\* The windows training_stream yields, run without interruption from a loaded
\* (file_offset, buffer).
RECURSIVE Stream(_, _, _, _)
Stream(f, n, off, buf) ==
    LET r == Refill(f, n, off, buf) IN
    IF r.eof
    THEN <<>>
    ELSE <<Window(SubSeq(r.buf, 1, CONTEXT_LEN + 1))>> \o Stream(f, n, r.off, Tail(r.buf))

\* ------------------------------------------------------------------- Init
ChunkSizes == {2 * c : c \in 1..MaxChunkTokens}

\* A fresh process: nothing bound, the generator not yet started.
FreshLocals ==
    /\ pc' = "start"
    /\ file_offset' = 0
    /\ buffer' = <<>>
    /\ fpos' = 0
    /\ chunk_bytes' = <<>>
    /\ seq' = <<>>
    /\ step' = 0
    /\ bound' = FALSE
    /\ offset' = 0
    /\ saveRet' = "loop"
    /\ taken' = <<>>
    /\ emitted' = <<>>

TrainInit ==
    /\ \E n \in 0..MaxTokens, e \in RecordLengths :
          /\ toks = CacheTokens(n, e)
          /\ cache = ToFile(CacheTokens(n, e))
    /\ CHUNK_SIZE \in ChunkSizes
    /\ ckptFile = Absent
    /\ pc = "start"
    /\ file_offset = 0
    /\ buffer = <<>>
    /\ fpos = 0
    /\ chunk_bytes = <<>>
    /\ seq = <<>>
    /\ step = 0
    /\ bound = FALSE
    /\ offset = 0
    /\ saveRet = "loop"
    /\ taken = <<>>
    /\ emitted = <<>>
    /\ base = 0
    /\ ckptK = 0
    /\ hsaves = 0
    /\ saved = {}
    /\ runs = 1

\* The tokenization program is not running.
TokIdle ==
    /\ dump = <<>>
    /\ indexLines = <<>>
    /\ tokCkpt = Absent
    /\ tpc = "idle"
    /\ offsets = <<>>
    /\ start_block = 0
    /\ block_idx = 0
    /\ items = <<>>
    /\ pageNo = 0
    /\ current_block_idx = 0
    /\ truns = 0
    /\ written = <<>>
    /\ walked = <<>>
    /\ inflight = {}
    /\ reran = FALSE

\* Neither parse-tokenize.py's reader nor a function application is under way.
PtIdle ==
    /\ page_idx = 0
    /\ start_page = 0
    /\ tokens = <<>>

FnIdle ==
    /\ arg = <<>>
    /\ ret = <<>>
    /\ recs = <<>>
    /\ wr = 0
    /\ tokfile = <<>>
    /\ rpos = 0
    /\ fpc = "idle"

AuxIdle == PtIdle /\ FnIdle

Init == TrainInit /\ TokIdle /\ AuxIdle

\* --------------------------------------------- training_stream, step by step
\* Lines 53-62: load the checkpoint, rebuild the deque, open the cache, seek.
G_Start ==
    /\ pc = "start"
    /\ LET c == load_checkpoint(ckptFile) IN
          /\ file_offset' = c.file_offset
          /\ buffer' = c.buffer
          /\ fpos' = c.file_offset
    /\ pc' = "g_while"
    /\ UNCHANGED <<auxVars, tokVars, toks, cache, CHUNK_SIZE, ckptFile, chunk_bytes, seq, step, bound,
                   offset, saveRet, emitted, base, ckptK, hsaves, saved, runs, taken>>

\* Line 66: while len(buffer) < CONTEXT_LEN + 1
G_While ==
    /\ pc = "g_while"
    /\ pc' = IF Len(buffer) < CONTEXT_LEN + 1 THEN "g_read" ELSE "g_seq"
    /\ UNCHANGED <<auxVars, tokVars, toks, cache, CHUNK_SIZE, ckptFile, file_offset, buffer, fpos,
                   chunk_bytes, seq, step, bound, offset, saveRet, emitted, base,
                   ckptK, hsaves, saved, runs, taken>>

\* Line 68: chunk_bytes = f.read(CHUNK_SIZE)
G_Read ==
    /\ pc = "g_read"
    /\ chunk_bytes' = FileRead(cache, fpos, CHUNK_SIZE)
    /\ fpos' = fpos + Len(FileRead(cache, fpos, CHUNK_SIZE))
    /\ pc' = "g_eof"
    /\ UNCHANGED <<auxVars, tokVars, toks, cache, CHUNK_SIZE, ckptFile, file_offset, buffer, seq, step,
                   bound, offset, saveRet, emitted, base, ckptK, hsaves, saved, runs, taken>>

\* Lines 69-70: if not chunk_bytes: return (the for loop of the caller ends)
G_Eof ==
    /\ pc = "g_eof"
    /\ pc' = IF chunk_bytes = <<>> THEN "done_eos" ELSE "g_extend"
    /\ UNCHANGED <<auxVars, tokVars, toks, cache, CHUNK_SIZE, ckptFile, file_offset, buffer, fpos,
                   chunk_bytes, seq, step, bound, offset, saveRet, emitted, base,
                   ckptK, hsaves, saved, runs, taken>>

\* Mutant of G_Extend: the new tokens go to the front of the deque.
G_Extend_front ==
    /\ pc = "g_extend"
    /\ buffer' = FromBytes(chunk_bytes) \o buffer
    /\ pc' = "g_advance"
    /\ UNCHANGED <<auxVars, tokVars, toks, cache, CHUNK_SIZE, ckptFile, file_offset, fpos, chunk_bytes,
                   seq, step, bound, offset, saveRet, emitted, base, ckptK, hsaves, saved,
                   runs, taken>>

\* Lines 74-76: new_tokens.frombytes(chunk_bytes); buffer.extend(new_tokens)
G_Extend ==
    /\ pc = "g_extend"
    /\ buffer' = buffer \o FromBytes(chunk_bytes)
    /\ pc' = "g_advance"
    /\ UNCHANGED <<auxVars, tokVars, toks, cache, CHUNK_SIZE, ckptFile, file_offset, fpos, chunk_bytes,
                   seq, step, bound, offset, saveRet, emitted, base, ckptK, hsaves, saved,
                   runs, taken>>

\* Mutant of G_Advance: the cursor counts tokens, not bytes.
G_Advance_in_tokens ==
    /\ pc = "g_advance"
    /\ file_offset' = file_offset + (Len(chunk_bytes) \div 2)
    /\ pc' = "g_while"
    /\ UNCHANGED <<auxVars, tokVars, toks, cache, CHUNK_SIZE, ckptFile, buffer, fpos, chunk_bytes, seq,
                   step, bound, offset, saveRet, emitted, base, ckptK, hsaves, saved, runs,
                   taken>>

\* Line 79: file_offset += len(chunk_bytes)
G_Advance ==
    /\ pc = "g_advance"
    /\ file_offset' = file_offset + Len(chunk_bytes)
    /\ pc' = "g_while"
    /\ UNCHANGED <<auxVars, tokVars, toks, cache, CHUNK_SIZE, ckptFile, buffer, fpos, chunk_bytes, seq,
                   step, bound, offset, saveRet, emitted, base, ckptK, hsaves, saved, runs,
                   taken>>

\* Line 83: seq = [buffer[i] for i in range(CONTEXT_LEN + 1)]
G_Seq ==
    /\ pc = "g_seq"
    /\ seq' = [i \in 1..(CONTEXT_LEN + 1) |-> buffer[i]]
    /\ taken' = buffer
    /\ pc' = "g_pop"
    /\ UNCHANGED <<auxVars, tokVars, toks, cache, CHUNK_SIZE, ckptFile, file_offset, buffer, fpos,
                   chunk_bytes, step, bound, offset, saveRet, emitted, base, ckptK,
                   hsaves, saved, runs>>

\* Mutant of G_Pop: the whole window is consumed (non-overlapping windows).
G_Pop_whole_window ==
    /\ pc = "g_pop"
    /\ buffer' = SubSeq(buffer, CONTEXT_LEN + 2, Len(buffer))
    /\ pc' = "g_yield"
    /\ UNCHANGED <<auxVars, tokVars, toks, cache, CHUNK_SIZE, ckptFile, file_offset, fpos, chunk_bytes,
                   seq, step, bound, offset, saveRet, emitted, base, ckptK, hsaves, saved,
                   runs, taken>>

\* Line 86: buffer.popleft()
G_Pop ==
    /\ pc = "g_pop"
    /\ buffer' = Tail(buffer)
    /\ pc' = "g_yield"
    /\ UNCHANGED <<auxVars, tokVars, toks, cache, CHUNK_SIZE, ckptFile, file_offset, fpos, chunk_bytes,
                   seq, step, bound, offset, saveRet, emitted, base, ckptK, hsaves, saved,
                   runs, taken>>

\* Lines 88-91 and 104: x = seq[:-1]; y = seq[1:]; yield x, y, file_offset, buffer.
\* The for loop binds step, x, y, offset and buffer (the deque itself).
G_Yield ==
    /\ pc = "g_yield"
    /\ emitted' = Append(emitted, Window(seq))
    /\ step' = Len(emitted)
    /\ offset' = file_offset
    /\ bound' = TRUE
    /\ pc' = "body"
    /\ UNCHANGED <<auxVars, tokVars, toks, cache, CHUNK_SIZE, ckptFile, file_offset, buffer, fpos,
                   chunk_bytes, seq, saveRet, base, ckptK, hsaves, saved, runs, taken>>

Generator ==
    \/ G_Start
    \/ G_While
    \/ G_Read
    \/ G_Eof
    \/ G_Extend
    \/ G_Advance
    \/ G_Seq
    \/ G_Pop
    \/ G_Yield

\* ------------------------------------------- a consumer that checkpoints
\* The consumer asks for the next window.
Pull ==
    /\ pc = "body"
    /\ pc' = "g_while"
    /\ UNCHANGED <<auxVars, tokVars, toks, cache, CHUNK_SIZE, ckptFile, file_offset, buffer, fpos,
                   chunk_bytes, seq, step, bound, offset, saveRet, emitted, base,
                   ckptK, hsaves, saved, runs, taken>>

\* The consumer saves the pair yielded with the last window, and a new
\* training_stream is started from that checkpoint over the same cache.
SaveRestart ==
    /\ pc = "body"
    /\ runs < MaxRuns
    /\ ckptFile' = save_checkpoint(offset, buffer)
    /\ ckptK' = base + Len(emitted)
    /\ base' = base + Len(emitted)
    /\ runs' = runs + 1
    /\ saved' = saved \cup {[file_offset |-> offset, buffer |-> buffer]}
    /\ FreshLocals
    /\ UNCHANGED <<auxVars, tokVars, toks, cache, CHUNK_SIZE, hsaves>>

ReaderNext == Generator \/ Pull \/ SaveRestart

SpecReader == Init /\ [][ReaderNext]_vars


\* ------------------------------------------------ the training loop (__main__)
\* Lines 107-113: the loop body; every SaveEvery steps it saves a checkpoint,
\* then the for loop resumes the generator.
LoopBody ==
    /\ pc = "body"
    /\ IF step % SaveEvery = 0
       THEN pc' = "save_open" /\ saveRet' = "loop"
       ELSE pc' = "g_while" /\ saveRet' = saveRet
    /\ UNCHANGED <<auxVars, tokVars, toks, cache, CHUNK_SIZE, ckptFile, file_offset, buffer, fpos,
                   chunk_bytes, seq, step, bound, offset, emitted, base, ckptK,
                   hsaves, saved, runs, taken>>

\* Line 44: open(TRAIN_CHECKPOINT, "w") truncates the file.
SaveOpen ==
    /\ pc = "save_open"
    /\ ckptFile' = <<>>
    /\ ckptK' = 0
    /\ pc' = "save_dump"
    /\ UNCHANGED <<auxVars, tokVars, toks, cache, CHUNK_SIZE, file_offset, buffer, fpos, chunk_bytes,
                   seq, step, bound, offset, saveRet, emitted, base, hsaves, saved,
                   runs, taken>>

\* Lines 39-45: json.dump writes the text piece by piece; after the last piece
\* save_checkpoint returns to the loop (line 113) or to the handler (line 120).
SaveDump ==
    /\ pc = "save_dump"
    /\ LET text == JsonText(offset, buffer)
           done == Len(ckptFile) + 1 = Len(text)
       IN /\ ckptFile' = Append(ckptFile, text[Len(ckptFile) + 1])
          /\ ckptK' = IF done THEN base + Len(emitted) ELSE ckptK
          /\ saved' = IF done
                      THEN saved \cup {[file_offset |-> offset, buffer |-> buffer]}
                      ELSE saved
          /\ pc' = IF ~done THEN "save_dump"
                   ELSE IF saveRet = "loop" THEN "g_while" ELSE "done_int"
          /\ hsaves' = IF done /\ saveRet = "handler" THEN hsaves + 1 ELSE hsaves
    /\ UNCHANGED <<auxVars, tokVars, toks, cache, CHUNK_SIZE, file_offset, buffer, fpos, chunk_bytes,
                   seq, step, bound, offset, saveRet, emitted, base, runs, taken>>

\* Where the process is inside the try block of lines 100-113.
InTry ==
    \/ pc \in {"start", "g_while", "g_read", "g_eof", "g_extend", "g_advance",
               "g_seq", "g_pop", "g_yield", "body"}
    \/ pc \in {"save_open", "save_dump"} /\ saveRet = "loop"

\* Where the process is inside the handler of lines 117-120.
InHandler ==
    \/ pc = "handler"
    \/ pc \in {"save_open", "save_dump"} /\ saveRet = "handler"

\* KeyboardInterrupt raised inside the try block, in the loop or in the
\* generator it is running: control passes to the except clause of line 117.
Interrupt ==
    /\ InTry
    /\ pc' = "handler"
    /\ UNCHANGED <<auxVars, tokVars, toks, cache, CHUNK_SIZE, ckptFile, file_offset, buffer, fpos,
                   chunk_bytes, seq, step, bound, offset, saveRet, emitted, base,
                   ckptK, hsaves, saved, runs, taken>>

\* Lines 118-120: save_checkpoint(offset, buffer); the names are those of the
\* for loop, unbound (NameError) when no window was delivered.
Handler ==
    /\ pc = "handler"
    /\ IF bound
       THEN pc' = "save_open" /\ saveRet' = "handler"
       ELSE pc' = "err_name" /\ saveRet' = saveRet
    /\ UNCHANGED <<auxVars, tokVars, toks, cache, CHUNK_SIZE, ckptFile, file_offset, buffer, fpos,
                   chunk_bytes, seq, step, bound, offset, emitted, base, ckptK,
                   hsaves, saved, runs, taken>>

\* The process dies where it stands (a second interrupt inside the handler, a
\* kill): files stay as they are.
Kill ==
    /\ InTry \/ InHandler
    /\ pc' = "killed"
    /\ UNCHANGED <<auxVars, tokVars, toks, cache, CHUNK_SIZE, ckptFile, file_offset, buffer, fpos,
                   chunk_bytes, seq, step, bound, offset, saveRet, emitted, base,
                   ckptK, hsaves, saved, runs, taken>>

\* The script is started again over the same files.
Restart ==
    /\ pc \in {"done_int", "err_name", "killed"}
    /\ runs < MaxRuns
    /\ runs' = runs + 1
    /\ base' = ckptK
    /\ hsaves' = 0
    /\ FreshLocals
    /\ UNCHANGED <<auxVars, tokVars, toks, cache, CHUNK_SIZE, ckptFile, ckptK, saved>>

TrainNext ==
    \/ Generator
    \/ LoopBody
    \/ SaveOpen
    \/ SaveDump
    \/ Interrupt
    \/ Handler
    \/ Kill
    \/ Restart

SpecTrain == Init /\ [][TrainNext]_vars

\* ======================================================== wiki_tokenize.py
\* ------------------------------------------------------------- block index
RECURSIVE SortedSeq(_)
\* sorted(list(offsets)) of a set of integers
SortedSeq(S) ==
    IF S = {} THEN <<>>
    ELSE LET m == CHOOSE x \in S : \A y \in S : x <= y
         IN <<m>> \o SortedSeq(S \ {m})

\* load_multistream_index: the leading offset of every line, collected in a
\* set, returned sorted. `lines` holds the offset field of each index line.
load_multistream_index(lines) == SortedSeq({lines[i] : i \in 1..Len(lines)})

\* ------------------------------------------------------- pages and filter
\* Code points of the texts of the model.
LBRACKET == 91
RBRACKET == 93
SPACE == 32

\* str.lower() on the code points the model uses (A-Z to a-z).
Lower(c) == IF c >= 65 /\ c <= 90 THEN c + 32 ELSE c

\* "list of"
ListOfPrefix == <<108, 105, 115, 116, 32, 111, 102>>

\* title.lower().startswith("list of")
StartsWithListOf(title) ==
    /\ Len(title) >= Len(ListOfPrefix)
    /\ \A i \in 1..Len(ListOfPrefix) : Lower(title[i]) = ListOfPrefix[i]

\* Mutant of is_valid_article: the title is not looked at.
is_valid_article_any_title(p) ==
    /\ p.ns = 0
    /\ ~p.redirect
    /\ Len(p.text) >= MIN_ARTICLE_CHARS

\* is_valid_article(p)
is_valid_article(p) ==
    /\ p.ns = 0
    /\ ~p.redirect
    /\ ~StartsWithListOf(p.title)
    /\ Len(p.text) >= MIN_ARTICLE_CHARS

\* RE_LINKS.sub("", text): every "[[" and "]]" removed, left to right.
RECURSIVE StripLinks(_)
StripLinks(t) ==
    IF Len(t) < 2 THEN t
    ELSE IF (t[1] = LBRACKET /\ t[2] = LBRACKET) \/ (t[1] = RBRACKET /\ t[2] = RBRACKET)
         THEN StripLinks(SubSeq(t, 3, Len(t)))
         ELSE <<t[1]>> \o StripLinks(Tail(t))

\* str.strip() for the whitespace of the model's texts.
RECURSIVE LStrip(_)
LStrip(t) == IF t # <<>> /\ t[1] = SPACE THEN LStrip(Tail(t)) ELSE t
RECURSIVE RStrip(_)
RStrip(t) ==
    IF t # <<>> /\ t[Len(t)] = SPACE THEN RStrip(SubSeq(t, 1, Len(t) - 1)) ELSE t

\* clean_wikitext on texts without templates, refs, tags or blank lines: the
\* link brackets go, then the text is stripped.
clean_wikitext(t) == RStrip(LStrip(StripLinks(t)))

\* One code point as UTF-8 (code points of the basic plane).
Utf8(c) ==
    IF c < 128 THEN <<c>>
    ELSE IF c < 2048 THEN <<192 + (c \div 64), 128 + (c % 64)>>
    ELSE <<224 + (c \div 4096), 128 + ((c \div 64) % 64), 128 + (c % 64)>>

\* text.encode("utf-8")
RECURSIVE Encode(_)
Encode(t) == IF t = <<>> THEN <<>> ELSE Utf8(Head(t)) \o Encode(Tail(t))

\* Mutant of document_to_tokens: one token per character, then EOS.
document_to_tokens_per_char(t) == Append(t, EOS_TOKEN)

\* document_to_tokens: the bytes of the text, then EOS.
document_to_tokens(t) == Append(Encode(t), EOS_TOKEN)

\* ------------------------------------------------------------ block walker
\* Distance between block offsets in the dumps of the model.
BlockStride == 100

\* The block that starts at byte offset o of the dump.
BlockAt(d, o) == d[o \div BlockStride]

\* Lines 57-67: feed chunks to the decompressor until it fails (OSError) or the
\* stream ends; the data decompressed so far is kept.
RECURSIVE Decompress(_)
Decompress(chunks) ==
    IF chunks = <<>> \/ Head(chunks).kind = "corrupt"
    THEN <<>>
    ELSE Head(chunks).xml \o Decompress(Tail(chunks))

\* Lines 72-80: iterparse over the wrapped data yields the pages up to the
\* first malformed element, where ParseError ends the block's pages.
RECURSIVE ParsePages(_)
ParsePages(data) ==
    IF data = <<>> \/ Head(data).kind = "malformed"
    THEN <<>>
    ELSE <<Head(data)>> \o ParsePages(Tail(data))

BlockPages(block) == ParsePages(Decompress(block))

\* ---------------------------------------------------- tokenize checkpoint
\* json.dump({"block_idx": block_idx}, f), in the pieces the encoder writes.
TokJsonText(b) == << <<"{", "block_idx", b>>, <<"}">> >>

\* load_checkpoint(): 0 when the file is absent; json.load(f)["block_idx"]
\* otherwise, which raises JSONDecodeError on a file that is not JSON.
tok_load_checkpoint(file) ==
    IF file = Absent
    THEN [raised |-> FALSE, value |-> 0]
    ELSE LET r == JsonLoad(file) IN
         IF r.ok
         THEN [raised |-> FALSE, value |-> DictGet(r.dict, "block_idx", 0)]
         ELSE [raised |-> TRUE, value |-> 0]

\* ------------------------------------------------------ dumps of the model
Title_Test == <<84, 101, 115, 116>>
Title_ListOfThings == <<76, 105, 115, 116, 32, 111, 102, 32, 84, 104, 105, 110, 103, 115>>
\* "[[A]]" followed by e-acute, a space and "b": cleaned, four code points.
ArticleText == <<91, 91, 65, 93, 93, 233, 32, 98>>

Article == [kind |-> "page", title |-> Title_Test, ns |-> 0, redirect |-> FALSE,
            text |-> ArticleText]
ListPage == [kind |-> "page", title |-> Title_ListOfThings, ns |-> 0,
             redirect |-> FALSE, text |-> ArticleText]
RedirectPage == [kind |-> "page", title |-> Title_Test, ns |-> 0, redirect |-> TRUE,
                 text |-> ArticleText]
TalkPage == [kind |-> "page", title |-> Title_Test, ns |-> 1, redirect |-> FALSE,
             text |-> ArticleText]
StubPage == [kind |-> "page", title |-> Title_Test, ns |-> 0, redirect |-> FALSE,
             text |-> <<65>>]
Malformed == [kind |-> "malformed"]

Data(xml) == [kind |-> "data", xml |-> xml]
Corrupt == [kind |-> "corrupt", xml |-> <<>>]

\* Block shapes: a plain block, a block of several chunks and pages, a block
\* whose decompression fails part-way, a block with malformed XML, a block
\* that does not decompress at all.
B_one == <<Data(<<Article>>)>>
B_several == <<Data(<<Article, ListPage>>), Data(<<StubPage, Article>>)>>
B_corrupt == <<Data(<<Article>>), Corrupt, Data(<<Article>>)>>
B_malformed == <<Data(<<TalkPage, Article, Malformed, Article>>)>>
B_dead == <<Corrupt>>
\* The pages "Test" and "List of Things" with the same body; a redirect.
B_pair == <<Data(<<Article, ListPage>>)>>
B_redirect == <<Data(<<RedirectPage, Article>>)>>

TokShapes == <<B_one, B_several, B_corrupt>>
WalkShapes == {B_one, B_several, B_corrupt, B_malformed, B_dead, B_pair, B_redirect}

\* The index of a dump: the offset of every block, on two lines each.
RECURSIVE IndexOf(_)
IndexOf(n) ==
    IF n = 0 THEN <<>> ELSE IndexOf(n - 1) \o <<n * BlockStride, n * BlockStride>>

\* The training program is not running.
TrainIdle ==
    /\ toks = <<>>
    /\ cache = <<>>
    /\ CHUNK_SIZE = 2
    /\ ckptFile = Absent
    /\ pc = "idle"
    /\ file_offset = 0
    /\ buffer = <<>>
    /\ fpos = 0
    /\ chunk_bytes = <<>>
    /\ seq = <<>>
    /\ step = 0
    /\ bound = FALSE
    /\ offset = 0
    /\ saveRet = "loop"
    /\ taken = <<>>
    /\ emitted = <<>>
    /\ base = 0
    /\ ckptK = 0
    /\ hsaves = 0
    /\ saved = {}
    /\ runs = 0

\* A tokenization process about to call build_token_cache.
TokFresh ==
    /\ tpc = "t_start"
    /\ offsets = <<>>
    /\ start_block = 0
    /\ block_idx = 0
    /\ items = <<>>
    /\ pageNo = 0
    /\ current_block_idx = 0
    /\ truns = 1
    /\ written = <<>>
    /\ walked = <<>>
    /\ inflight = {}
    /\ reran = FALSE

\* First run of the tokenization over a dump of up to MaxBlocks blocks.
TokInit ==
    /\ TrainIdle
    /\ AuxIdle
    /\ \E n \in 0..MaxBlocks, r \in 0..(Len(TokShapes) - 1) :
          /\ dump = [i \in 1..n |-> TokShapes[((i + r) % Len(TokShapes)) + 1]]
          /\ indexLines = IndexOf(n)
    /\ tokCkpt = Absent
    /\ TokFresh

\* The block walker started at any block of a short dump of any shapes.
WalkInit ==
    /\ TrainIdle
    /\ AuxIdle
    /\ \E n \in 0..MaxWalkBlocks :
          /\ dump \in [1..n -> WalkShapes]
          /\ indexLines = IndexOf(n)
          /\ \E s \in 0..n : tokCkpt = IF s = 0 THEN Absent ELSE TokJsonText(s)
    /\ TokFresh

\* --------------------------------------------------- build_token_cache
\* Mutant of T_Start: a run that finds a checkpoint starts one block after it.
T_Start_after_checkpoint ==
    /\ tpc = "t_start"
    /\ offsets' = load_multistream_index(indexLines)
    /\ LET c == tok_load_checkpoint(tokCkpt)
           first == IF tokCkpt = Absent THEN c.value ELSE c.value + 1
       IN IF c.raised
          THEN /\ tpc' = "t_err_json"
               /\ UNCHANGED <<start_block, current_block_idx, block_idx>>
          ELSE /\ tpc' = "w_next"
               /\ start_block' = first
               /\ current_block_idx' = first
               /\ block_idx' = first
    /\ UNCHANGED <<auxVars, trainVars, dump, indexLines, tokCkpt, items, pageNo, truns,
                   written, walked, inflight, reran>>

\* Lines 150-165: load the index and the checkpoint, open the cache for
\* appending, create the generator.
T_Start ==
    /\ tpc = "t_start"
    /\ offsets' = load_multistream_index(indexLines)
    /\ LET c == tok_load_checkpoint(tokCkpt) IN
          IF c.raised
          THEN /\ tpc' = "t_err_json"
               /\ UNCHANGED <<start_block, current_block_idx, block_idx>>
          ELSE /\ tpc' = "w_next"
               /\ start_block' = c.value
               /\ current_block_idx' = c.value
               /\ block_idx' = c.value
    /\ UNCHANGED <<auxVars, trainVars, dump, indexLines, tokCkpt, items, pageNo, truns,
                   written, walked, inflight, reran>>

\* Lines 53-74: the next block of range(start_block, len(offsets)): seek,
\* decompress, wrap, start parsing.
W_Block ==
    /\ tpc = "w_next"
    /\ block_idx < Len(offsets)
    /\ items' = BlockPages(BlockAt(dump, offsets[block_idx + 1]))
    /\ pageNo' = 0
    /\ tpc' = "w_items"
    /\ UNCHANGED <<auxVars, trainVars, dump, indexLines, tokCkpt, offsets, start_block,
                   block_idx, current_block_idx, truns, written, walked, inflight,
                   reran>>

\* Lines 75-78 and 176-183: the walker yields a page; the driver parses it and,
\* if it is a valid article, appends its tokens to the cache.
W_Page ==
    /\ tpc = "w_items"
    /\ items # <<>>
    /\ walked' = Append(walked, [block |-> block_idx, page |-> pageNo + 1, end |-> FALSE])
    /\ IF is_valid_article(Head(items))
       THEN /\ cache' = cache \o ToFile(document_to_tokens(clean_wikitext(Head(items).text)))
            /\ written' = Append(written, [block |-> block_idx, page |-> pageNo + 1])
       ELSE UNCHANGED <<cache, written>>
    /\ items' = Tail(items)
    /\ pageNo' = pageNo + 1
    /\ UNCHANGED <<auxVars, trainLocal, dump, indexLines, tokCkpt, tpc, offsets, start_block,
                   block_idx, current_block_idx, truns, inflight, reran>>

\* Whether decompressing or parsing the block raises.
BlockFails(block) ==
    \/ \E i \in 1..Len(block) : block[i].kind = "corrupt"
    \/ \E i \in 1..Len(Decompress(block)) : Decompress(block)[i].kind = "malformed"

\* Mutant of W_EndBlock: the end-of-block signal is yielded inside the try, so
\* a block that raised goes without it.
W_EndBlock_inside_try ==
    /\ tpc = "w_items"
    /\ items = <<>>
    /\ block_idx' = block_idx + 1
    /\ IF BlockFails(BlockAt(dump, offsets[block_idx + 1]))
       THEN /\ tpc' = "w_next"
            /\ UNCHANGED <<walked, current_block_idx>>
       ELSE /\ walked' = Append(walked, [block |-> block_idx, page |-> 0, end |-> TRUE])
            /\ current_block_idx' = current_block_idx + 1
            /\ tpc' = IF (current_block_idx + 1) % CHECKPOINT_EVERY = 0
                      THEN "t_save_open" ELSE "w_next"
    /\ UNCHANGED <<auxVars, trainVars, dump, indexLines, tokCkpt, offsets, start_block, items,
                   pageNo, truns, written, inflight, reran>>

\* Lines 83 and 169-174: the walker yields None, also after a decompression
\* or parse error; the driver counts the block and saves every 10th.
W_EndBlock ==
    /\ tpc = "w_items"
    /\ items = <<>>
    /\ walked' = Append(walked, [block |-> block_idx, page |-> 0, end |-> TRUE])
    /\ current_block_idx' = current_block_idx + 1
    /\ block_idx' = block_idx + 1
    /\ tpc' = IF (current_block_idx + 1) % CHECKPOINT_EVERY = 0
              THEN "t_save_open" ELSE "w_next"
    /\ UNCHANGED <<auxVars, trainVars, dump, indexLines, tokCkpt, offsets, start_block, items,
                   pageNo, truns, written, inflight, reran>>

\* Line 136: open(TOKENIZE_CHECKPOINT, "w") truncates the file.
T_SaveOpen ==
    /\ tpc = "t_save_open"
    /\ tokCkpt' = <<>>
    /\ tpc' = "t_save_dump"
    /\ UNCHANGED <<auxVars, trainVars, dump, indexLines, offsets, start_block, block_idx, items,
                   pageNo, current_block_idx, truns, written, walked, inflight, reran>>

\* Line 137: json.dump writes the text piece by piece; then the loop goes on.
T_SaveDump ==
    /\ tpc = "t_save_dump"
    /\ LET text == TokJsonText(current_block_idx) IN
          /\ tokCkpt' = Append(tokCkpt, text[Len(tokCkpt) + 1])
          /\ tpc' = IF Len(tokCkpt) + 1 = Len(text) THEN "w_next" ELSE "t_save_dump"
    /\ UNCHANGED <<auxVars, trainVars, dump, indexLines, offsets, start_block, block_idx, items,
                   pageNo, current_block_idx, truns, written, walked, inflight, reran>>

\* Lines 167 and 185: the generator is exhausted; "Tokenization complete".
T_Finish ==
    /\ tpc = "w_next"
    /\ block_idx >= Len(offsets)
    /\ tpc' = "t_done"
    /\ UNCHANGED <<auxVars, trainVars, dump, indexLines, tokCkpt, offsets, start_block,
                   block_idx, items, pageNo, current_block_idx, truns, written, walked,
                   inflight, reran>>

\* The process dies where it stands; the files stay as they are.
T_Crash ==
    /\ tpc \in {"t_start", "w_next", "w_items", "t_save_open", "t_save_dump"}
    /\ inflight' = IF tpc = "t_start" THEN inflight ELSE inflight \cup {block_idx}
    /\ tpc' = "t_crashed"
    /\ UNCHANGED <<auxVars, trainVars, dump, indexLines, tokCkpt, offsets, start_block,
                   block_idx, items, pageNo, current_block_idx, truns, written, walked,
                   reran>>

\* The script is started again over the same files.
T_Restart ==
    /\ tpc \in {"t_crashed", "t_done"}
    /\ truns < MaxTokRuns
    /\ truns' = truns + 1
    /\ reran' = (reran \/ tpc = "t_done")
    /\ tpc' = "t_start"
    /\ offsets' = <<>>
    /\ start_block' = 0
    /\ block_idx' = 0
    /\ items' = <<>>
    /\ pageNo' = 0
    /\ current_block_idx' = 0
    /\ walked' = <<>>
    /\ UNCHANGED <<auxVars, trainVars, dump, indexLines, tokCkpt, written, inflight>>

Walker ==
    \/ T_Start
    \/ W_Block
    \/ W_Page
    \/ W_EndBlock
    \/ T_Finish

TokNext ==
    \/ Walker
    \/ T_SaveOpen
    \/ T_SaveDump
    \/ T_Crash
    \/ T_Restart

SpecTok == TokInit /\ [][TokNext]_vars

SpecWalk == WalkInit /\ [][Walker]_vars

\* ------------------------------------------- load_multistream_index, applied
COLON == 58
DIGIT_ZERO == 48

\* line.split(":", 1)[0]: the characters before the first colon.
RECURSIVE BeforeColon(_)
BeforeColon(line) ==
    IF line = <<>> \/ Head(line) = COLON
    THEN <<>>
    ELSE <<Head(line)>> \o BeforeColon(Tail(line))

\* int(s) of a string of decimal digits.
RECURSIVE ParseInt(_)
ParseInt(digits) ==
    IF digits = <<>> THEN 0
    ELSE 10 * ParseInt(SubSeq(digits, 1, Len(digits) - 1))
         + (digits[Len(digits)] - DIGIT_ZERO)

\* Line 40: int(line.split(":", 1)[0])
LineOffset(line) == ParseInt(BeforeColon(line))

\* The offsets in the order of their first lines, without repeats.
RECURSIVE FirstOccurrences(_)
FirstOccurrences(xs) ==
    IF xs = <<>> THEN <<>>
    ELSE LET front == FirstOccurrences(SubSeq(xs, 1, Len(xs) - 1))
             x == xs[Len(xs)]
         IN IF \E i \in 1..Len(front) : front[i] = x THEN front ELSE Append(front, x)

\* Mutant of load_index_file: the set is returned as a list, not sorted.
load_index_file_unsorted(lines) ==
    FirstOccurrences([i \in 1..Len(lines) |-> LineOffset(lines[i])])

\* load_multistream_index over the text of the index lines.
load_index_file(lines) ==
    load_multistream_index([i \in 1..Len(lines) |-> LineOffset(lines[i])])

\* Index lines of the model, each with the offset it states:
\* "5:1:A", "12:2:B", "05:3:C" and "3:4:D:E".
IndexLineTexts ==
    { [text |-> <<53, 58, 49, 58, 65>>, value |-> 5],
      [text |-> <<49, 50, 58, 50, 58, 66>>, value |-> 12],
      [text |-> <<48, 53, 58, 51, 58, 67>>, value |-> 5],
      [text |-> <<51, 58, 52, 58, 68, 58, 69>>, value |-> 3] }

RECURSIVE SeqsUpTo(_, _)
\* The sequences over S of length at most n.
SeqsUpTo(S, n) ==
    IF n = 0 THEN {<<>>}
    ELSE LET shorter == SeqsUpTo(S, n - 1)
         IN shorter \cup {Append(q, x) : q \in shorter, x \in S}

IndexInit ==
    /\ TrainIdle
    /\ TokIdle
    /\ PtIdle
    /\ arg \in SeqsUpTo(IndexLineTexts, MaxIndexLines)
    /\ ret = <<>>
    /\ recs = <<>>
    /\ wr = 0
    /\ tokfile = <<>>
    /\ rpos = 0
    /\ fpc = "call"

\* offsets = load_multistream_index(INDEX_PATH)
F_LoadIndex ==
    /\ fpc = "call"
    /\ ret' = load_index_file([i \in 1..Len(arg) |-> arg[i].text])
    /\ fpc' = "return"
    /\ UNCHANGED <<trainVars, tokVars, ptVars, arg, recs, wr, tokfile, rpos>>

SpecIndex == IndexInit /\ [][F_LoadIndex]_vars

\* ========================================================= parse-tokenize.py
\* The reader over the length-prefixed cache: one record per article, windows
\* of CONTEXT_LEN + 1 tokens popped off the deque, a checkpoint of
\* (page_index, buffer).
TOKENIZER_VERSION == "byte-v1"

\* json.dump of {"page_index": ..., "buffer": [...], "tokenizer": ...}
PtJsonText(page, buf) ==
    << <<"{", "page_index", page>>, <<",", "buffer", buf>>,
       <<",", "tokenizer", TOKENIZER_VERSION>>, <<"}">> >>

\* save_checkpoint(page_idx, buffer): the file it leaves.
pt_save_checkpoint(page, buf) == PtJsonText(page, buf)

\* load_checkpoint(): None when the file is absent, else json.load(f).
pt_load_checkpoint(file) ==
    IF file = Absent
    THEN [none |-> TRUE, raised |-> FALSE, dict |-> <<>>]
    ELSE LET r == JsonLoad(file) IN [none |-> FALSE, raised |-> ~r.ok, dict |-> r.dict]

\* The windows popped off a deque: CONTEXT_LEN + 1 tokens each, front first.
PopWindows(b) ==
    [i \in 1..(Len(b) \div (CONTEXT_LEN + 1)) |->
        Window(SubSeq(b, (i - 1) * (CONTEXT_LEN + 1) + 1, i * (CONTEXT_LEN + 1)))]

\* What the inner while loop leaves in the deque.
PopRest(b) == SubSeq(b, (Len(b) \div (CONTEXT_LEN + 1)) * (CONTEXT_LEN + 1) + 1, Len(b))

\* The windows training_stream yields, run without interruption with the file
\* at position p, page_idx idx, a start_page and a deque.
RECURSIVE PtStream(_, _, _, _, _)
PtStream(f, p, idx, start, buf) ==
    LET r == load_tokens(f, p) IN
    IF r.raised \/ r.value.none THEN <<>>
    ELSE IF idx + 1 <= start THEN PtStream(f, r.pos, idx + 1, start, buf)
    ELSE LET b == buf \o r.value.tokens
         IN PopWindows(b) \o PtStream(f, r.pos, idx + 1, start, PopRest(b))

\* Article lengths of the caches, in tokens (sentinel included).
PtRecordLengths == {3, 7, 13}

\* The token record of article j: distinct values, then EOS.
PtRecord(j, len) == [i \in 1..len |-> IF i = len THEN EOS_TOKEN ELSE 20 * j + i]

RECURSIVE PtCache(_)
\* The cache build_token_cache leaves for the records.
PtCache(rs) == IF rs = <<>> THEN <<>> ELSE save_tokens(Head(rs)) \o PtCache(Tail(rs))

\* Variables the reader of parse-tokenize.py leaves alone.
ptPinned == <<tokVars, fnVars, toks, cache, CHUNK_SIZE, file_offset, chunk_bytes, step,
              bound, offset, saveRet, hsaves, taken>>

PtInit ==
    /\ TokIdle
    /\ \E n \in 0..MaxRecords : \E lens \in [1..n -> PtRecordLengths] :
          /\ recs = [j \in 1..n |-> PtRecord(j, lens[j])]
          /\ cache = PtCache([j \in 1..n |-> PtRecord(j, lens[j])])
    /\ arg = <<>> /\ ret = <<>> /\ wr = 0 /\ tokfile = <<>> /\ rpos = 0 /\ fpc = "idle"
    /\ toks = <<>> /\ CHUNK_SIZE = 2 /\ file_offset = 0 /\ chunk_bytes = <<>>
    /\ step = 0 /\ bound = FALSE /\ offset = 0 /\ saveRet = "loop" /\ hsaves = 0
    /\ taken = <<>>
    /\ ckptFile = Absent
    /\ pc = "p_start"
    /\ buffer = <<>>
    /\ fpos = 0
    /\ seq = <<>>
    /\ emitted = <<>>
    /\ base = 0
    /\ ckptK = 0
    /\ saved = {}
    /\ runs = 1
    /\ page_idx = 0
    /\ start_page = 0
    /\ tokens = None

\* Lines 153-164: load the checkpoint, rebuild the deque, open the cache.
P_Start ==
    /\ pc = "p_start"
    /\ LET c == pt_load_checkpoint(ckptFile) IN
          IF c.none
          THEN /\ buffer' = <<>>
               /\ start_page' = 0
               /\ pc' = "p_load"
          ELSE IF c.raised \/ DictGet(c.dict, "tokenizer", "") # TOKENIZER_VERSION
          THEN /\ pc' = "p_err"
               /\ UNCHANGED <<buffer, start_page>>
          ELSE /\ buffer' = DictGet(c.dict, "buffer", <<>>)
               /\ start_page' = DictGet(c.dict, "page_index", 0)
               /\ pc' = "p_load"
    /\ fpos' = 0
    /\ page_idx' = 0
    /\ UNCHANGED <<ptPinned, ckptFile, seq, emitted, base, ckptK, saved, runs, tokens>>

\* Lines 167-169: tokens = load_tokens(f); if tokens is None: break
P_Load ==
    /\ pc = "p_load"
    /\ LET r == load_tokens(cache, fpos) IN
          /\ tokens' = r.value
          /\ fpos' = r.pos
          /\ pc' = IF r.raised THEN "p_err"
                   ELSE IF r.value.none THEN "done_eos" ELSE "p_count"
    /\ UNCHANGED <<ptPinned, ckptFile, buffer, seq, emitted, base, ckptK, saved, runs,
                   page_idx, start_page>>

\* Lines 171-173: page_idx += 1; if page_idx <= start_page: continue
P_Count ==
    /\ pc = "p_count"
    /\ page_idx' = page_idx + 1
    /\ pc' = IF page_idx + 1 <= start_page THEN "p_load" ELSE "p_extend"
    /\ UNCHANGED <<ptPinned, ckptFile, buffer, fpos, seq, emitted, base, ckptK, saved,
                   runs, start_page, tokens>>

\* Line 175: buffer.extend(tokens)
P_Extend ==
    /\ pc = "p_extend"
    /\ buffer' = buffer \o tokens.tokens
    /\ pc' = "p_while"
    /\ UNCHANGED <<ptPinned, ckptFile, fpos, seq, emitted, base, ckptK, saved, runs,
                   page_idx, start_page, tokens>>

\* Line 177: while len(buffer) >= CONTEXT_LEN + 1
P_While ==
    /\ pc = "p_while"
    /\ pc' = IF Len(buffer) >= CONTEXT_LEN + 1 THEN "p_seq" ELSE "p_load"
    /\ UNCHANGED <<ptPinned, ckptFile, buffer, fpos, seq, emitted, base, ckptK, saved,
                   runs, page_idx, start_page, tokens>>

\* Line 178: seq = [buffer.popleft() for _ in range(CONTEXT_LEN + 1)]
P_Seq ==
    /\ pc = "p_seq"
    /\ seq' = SubSeq(buffer, 1, CONTEXT_LEN + 1)
    /\ buffer' = SubSeq(buffer, CONTEXT_LEN + 2, Len(buffer))
    /\ pc' = "p_yield"
    /\ UNCHANGED <<ptPinned, ckptFile, fpos, emitted, base, ckptK, saved, runs, page_idx,
                   start_page, tokens>>

\* Line 179: yield seq[:-1], seq[1:], page_idx, buffer
P_Yield ==
    /\ pc = "p_yield"
    /\ emitted' = Append(emitted, Window(seq))
    /\ pc' = "p_body"
    /\ UNCHANGED <<ptPinned, ckptFile, buffer, fpos, seq, base, ckptK, saved, runs,
                   page_idx, start_page, tokens>>

\* The consumer asks for the next window.
P_Pull ==
    /\ pc = "p_body"
    /\ pc' = "p_while"
    /\ UNCHANGED <<ptPinned, ckptFile, buffer, fpos, seq, emitted, base, ckptK, saved,
                   runs, page_idx, start_page, tokens>>

\* The consumer saves the page_idx and buffer yielded with the last window,
\* and a new training_stream is started from that checkpoint.
P_SaveRestart ==
    /\ pc = "p_body"
    /\ runs < MaxRuns
    /\ ckptFile' = pt_save_checkpoint(page_idx, buffer)
    /\ ckptK' = base + Len(emitted)
    /\ base' = base + Len(emitted)
    /\ saved' = saved \cup {[page_index |-> page_idx, buffer |-> buffer]}
    /\ runs' = runs + 1
    /\ pc' = "p_start"
    /\ buffer' = <<>>
    /\ fpos' = 0
    /\ seq' = <<>>
    /\ emitted' = <<>>
    /\ page_idx' = 0
    /\ start_page' = 0
    /\ tokens' = None
    /\ UNCHANGED ptPinned

PtNext ==
    \/ P_Start
    \/ P_Load
    \/ P_Count
    \/ P_Extend
    \/ P_While
    \/ P_Seq
    \/ P_Yield
    \/ P_Pull
    \/ P_SaveRestart

SpecPt == PtInit /\ [][PtNext]_vars

\* ---------------------------------------------- document_to_tokens, applied
\* Characters of the texts: "A", e-acute, U+0100 (code point 256) and the
\* euro sign; one, two, two and three bytes of UTF-8.
TextChars == {65, 233, 256, 8364}

EncodeInit ==
    /\ TrainIdle
    /\ TokIdle
    /\ PtIdle
    /\ arg \in SeqsUpTo(TextChars, MaxTextLen)
    /\ ret = <<>>
    /\ recs = <<>>
    /\ wr = 0
    /\ tokfile = <<>>
    /\ rpos = 0
    /\ fpc = "call"

\* tokens = document_to_tokens(clean)
F_DocumentToTokens ==
    /\ fpc = "call"
    /\ ret' = document_to_tokens(arg)
    /\ fpc' = "return"
    /\ UNCHANGED <<trainVars, tokVars, ptVars, arg, recs, wr, tokfile, rpos>>

SpecEncode == EncodeInit /\ [][F_DocumentToTokens]_vars

\* --------------------------------------------- cache written and read back
\* Token records: the empty list and document_to_tokens of "", "A", e-acute.
RecordSet == {<<>>, <<256>>, <<65, 256>>, <<195, 169, 256>>}

\* arg is the layout: "prefixed" (parse-tokenize.py) or "raw" (wiki_tokenize.py
\* written, wiki_train.py read).
CacheInit ==
    /\ TrainIdle
    /\ TokIdle
    /\ PtIdle
    /\ arg \in {"prefixed", "raw"}
    /\ recs \in SeqsUpTo(RecordSet, MaxRecords)
    /\ ret = <<>>
    /\ wr = 0
    /\ tokfile = <<>>
    /\ rpos = 0
    /\ fpc = "write"

\* parse-tokenize.py:120 save_tokens(fout, tokens)
F_SaveTokens ==
    /\ fpc = "write"
    /\ arg = "prefixed"
    /\ wr < Len(recs)
    /\ tokfile' = tokfile \o save_tokens(recs[wr + 1])
    /\ wr' = wr + 1
    /\ UNCHANGED <<trainVars, tokVars, ptVars, arg, ret, recs, rpos, fpc>>

\* wiki_tokenize.py:183 tokens.tofile(fout)
F_ToFile ==
    /\ fpc = "write"
    /\ arg = "raw"
    /\ wr < Len(recs)
    /\ tokfile' = tokfile \o ToFile(recs[wr + 1])
    /\ wr' = wr + 1
    /\ UNCHANGED <<trainVars, tokVars, ptVars, arg, ret, recs, rpos, fpc>>

\* The writer's with block ends; the reader opens the file.
F_Reopen ==
    /\ fpc = "write"
    /\ wr = Len(recs)
    /\ fpc' = "read"
    /\ UNCHANGED <<trainVars, tokVars, ptVars, arg, ret, recs, wr, tokfile, rpos>>

\* parse-tokenize.py:167 tokens = load_tokens(f)
F_LoadTokens ==
    /\ fpc = "read"
    /\ arg = "prefixed"
    /\ LET r == load_tokens(tokfile, rpos) IN
          /\ rpos' = r.pos
          /\ IF r.raised
             THEN /\ fpc' = "raised"
                  /\ ret' = ret
             ELSE /\ ret' = Append(ret, r.value)
                  /\ fpc' = IF r.value.none THEN "return" ELSE "read"
    /\ UNCHANGED <<trainVars, tokVars, ptVars, arg, recs, wr, tokfile>>

\* wiki_train.py:68-79: one read of a whole number of tokens, decoded and
\* appended to the tokens read so far; the reader stops at the empty read.
F_ReadChunk ==
    /\ fpc = "read"
    /\ arg = "raw"
    /\ \E size \in ChunkSizes :
          LET chunk == FileRead(tokfile, rpos, size) IN
          IF chunk = <<>>
          THEN /\ fpc' = "return"
               /\ UNCHANGED <<ret, rpos>>
          ELSE /\ ret' = ret \o FromBytes(chunk)
               /\ rpos' = rpos + Len(chunk)
               /\ fpc' = "read"
    /\ UNCHANGED <<trainVars, tokVars, ptVars, arg, recs, wr, tokfile>>

CacheNext ==
    \/ F_SaveTokens
    \/ F_ToFile
    \/ F_Reopen
    \/ F_LoadTokens
    \/ F_ReadChunk

SpecCache == CacheInit /\ [][CacheNext]_vars

\* ================================================================== claims
\* The windows of the uninterrupted run over the cache, from no checkpoint.
Uninterrupted == Stream(cache, CHUNK_SIZE, 0, <<>>)

\* C1: a stream started from the checkpoint saved with the k-th window of the
\* uninterrupted run (base = k) emits exactly windows k+1, k+2, ... of that
\* run, same values, same order, and ends when that run ends.
C1_ResumptionEquivalence ==
    /\ base + Len(emitted) <= Len(Uninterrupted)
    /\ \A i \in 1..Len(emitted) : emitted[i] = Uninterrupted[base + i]
    /\ pc = "done_eos" => base + Len(emitted) = Len(Uninterrupted)

\* A resumed stream has emitted windows after a checkpoint and reached the end.
C1_Witness ==
    /\ runs = 2
    /\ base >= 1
    /\ pc = "done_eos"
    /\ Len(emitted) >= 2

\* C2: started with no checkpoint on a cache of N tokens t, the reader emits
\* exactly max(0, N - CONTEXT_LEN) windows, the k-th (from 0) with input
\* t[k .. k+CONTEXT_LEN-1] and target t[k+1 .. k+CONTEXT_LEN], whatever the
\* chunk size of the reads.
C2_WindowsOfCache ==
    runs = 1 =>
        /\ \A i \in 1..Len(emitted) :
              /\ emitted[i].x = SubSeq(toks, i, i + CONTEXT_LEN - 1)
              /\ emitted[i].y = SubSeq(toks, i + 1, i + CONTEXT_LEN)
        /\ Len(emitted) <= Max(0, Len(toks) - CONTEXT_LEN)
        /\ pc = "done_eos" => Len(emitted) = Max(0, Len(toks) - CONTEXT_LEN)

\* A fresh run has ended after several windows, read in chunks smaller than a
\* window.
C2_Witness ==
    /\ runs = 1
    /\ pc = "done_eos"
    /\ Len(emitted) >= 3
    /\ CHUNK_SIZE < 2 * (CONTEXT_LEN + 1)

\* C3: when a window is taken the buffer holds at least CONTEXT_LEN + 1
\* values; a delivered window has removed exactly one value, the front one,
\* from the buffer it was taken from; and within a stream the buffer grows
\* only by the next unread cache tokens appended at its back.
C3_Step ==
    /\ (pc # "body" /\ pc' = "body") =>
          /\ buffer' = Tail(taken')
          /\ Len(buffer') = Len(taken') - 1
    /\ (pc # "start" /\ Len(buffer') > Len(buffer)) =>
          /\ pc = "g_extend"
          /\ buffer' = buffer \o SubSeq(toks, (file_offset \div 2) + 1,
                                       (file_offset \div 2) + Len(buffer') - Len(buffer))
          /\ (file_offset \div 2) + Len(buffer') - Len(buffer) <= Len(toks)
    /\ (pc # "start" /\ pc' # "start" /\ Len(buffer') < Len(buffer)) => pc = "g_pop"

C3_SlidingBuffer ==
    /\ [](pc = "g_seq" => Len(buffer) >= CONTEXT_LEN + 1)
    /\ [][C3_Step]_vars

\* A window has been delivered from a buffer that a refill had grown beyond
\* the window.
C3_Witness ==
    /\ pc = "body"
    /\ Len(taken) > CONTEXT_LEN + 1
    /\ Len(emitted) >= 2

\* C4: after a crash and a resume from the persisted checkpoint, a record
\* appears twice in the cache only if its block was in flight at the crash.
C4_DuplicatesOnlyInFlight ==
    ~reran =>
        \A i, j \in 1..Len(written) :
            (i < j /\ written[i] = written[j]) => written[i].block \in inflight

\* C5: the checkpoint is saved after every 10 completed blocks, and when
\* build_token_cache returns the persisted value is the number of blocks.
C5_CheckpointAtCompletion ==
    /\ (tpc = "w_next" /\ current_block_idx > start_block
            /\ current_block_idx % CHECKPOINT_EVERY = 0)
          => tok_load_checkpoint(tokCkpt).value = current_block_idx
    /\ tpc = "t_done"
          => /\ ~tok_load_checkpoint(tokCkpt).raised
             /\ tok_load_checkpoint(tokCkpt).value = Len(offsets)

\* C6: an interrupt at any moment of the training run ends the run with
\* exactly one checkpoint save by the handler and no other error.
C6_InterruptSavesOnceCleanly ==
    pc \in {"done_int", "err_name"} => (pc = "done_int" /\ hsaves = 1)

\* The end-of-block signals the walker has yielded, in order.
EndSignals == SelectSeq(walked, LAMBDA e : e.end)

\* C7: from start_block s over n offsets the walker takes blocks s, s+1, ...,
\* n-1 in increasing order and yields one end-of-block signal per block, after
\* the block's pages and before any page of a later block, also when the
\* block fails to decompress or to parse; n - s signals in all.
C7_EndOfBlockPerBlock ==
    /\ \A i \in 1..Len(EndSignals) : EndSignals[i].block = start_block + i - 1
    /\ \A i, j \in 1..Len(walked) :
          i < j => /\ walked[i].block <= walked[j].block
                   /\ walked[i].end => walked[i].block < walked[j].block
    /\ \A i \in 1..Len(walked) :
          /\ walked[i].block >= start_block
          /\ walked[i].block < Len(offsets)
    /\ tpc = "t_done" => Len(EndSignals) = Len(offsets) - start_block

\* The walker, started after block 0, has finished a dump in which one block
\* failed to decompress part-way and another held malformed XML.
C7_Witness ==
    /\ tpc = "t_done"
    /\ start_block >= 1
    /\ Len(EndSignals) >= 2
    /\ \E i \in 1..Len(EndSignals) : dump[EndSignals[i].block + 1] = B_corrupt
    /\ \E i \in 1..Len(EndSignals) : dump[EndSignals[i].block + 1] = B_malformed
    /\ \E i \in 1..Len(walked) : ~walked[i].end

\* C8: the tokenization checkpoint load never raises, and with the file
\* absent, unreadable or corrupt it returns 0 (tokenization starts at block 0).
C8_TokLoadNeverRaises ==
    /\ tpc # "t_err_json"
    /\ (tpc = "t_start" /\ (tokCkpt = Absent \/ ~JsonLoad(tokCkpt).ok))
          => (~tok_load_checkpoint(tokCkpt).raised /\ tok_load_checkpoint(tokCkpt).value = 0)

\* C9: the training checkpoint load returns (0, empty) when the file is absent
\* or is not complete JSON, and otherwise a (cursor, buffer) pair exactly as
\* one completed save_checkpoint call wrote it; so a stream never starts from
\* a cursor past 0 with an empty buffer.
C9_LoadIsDefaultOrSavedPair ==
    LET c == load_checkpoint(ckptFile) IN
    /\ (ckptFile = Absent \/ ~JsonLoad(ckptFile).ok)
          => c = [file_offset |-> 0, buffer |-> <<>>]
    /\ c = [file_offset |-> 0, buffer |-> <<>>] \/ c \in saved
    /\ pc = "g_while" /\ emitted = <<>> /\ file_offset = fpos /\ buffer = <<>>
          => file_offset = 0

\* A restarted process has loaded a checkpoint file that a killed save left
\* truncated after the cursor, and started from (0, empty).
C9_Witness ==
    /\ runs = 2
    /\ pc = "g_while"
    /\ ckptFile # Absent
    /\ Len(ckptFile) = 1
    /\ ckptFile[1][3] > 0
    /\ file_offset = 0
    /\ buffer = <<>>

\* C10: an index with no offsets is a fatal format error: the driver never
\* gets past loading it, and never reports completion, with zero blocks.
C10_EmptyIndexIsFatal ==
    tpc \in {"w_next", "w_items", "t_save_open", "t_save_dump", "t_done"}
        => offsets # <<>>

\* C11: for an index whose lines each start with an integer offset, in any
\* order and with repeats, load_multistream_index returns a strictly
\* increasing sequence holding each distinct offset of the input once and
\* nothing else.
C11_IndexSortedDistinct ==
    fpc = "return" =>
        /\ \A i \in 1..(Len(ret) - 1) : ret[i] < ret[i + 1]
        /\ {ret[i] : i \in 1..Len(ret)} = {arg[i].value : i \in 1..Len(arg)}

\* The loader has returned for an index with a repeated offset and lines out
\* of order.
C11_Witness ==
    /\ fpc = "return"
    /\ Len(arg) = 3
    /\ arg[1].value > arg[2].value
    /\ arg[1].value = arg[3].value
    /\ arg[1].text # arg[3].text
    /\ Len(ret) = 2

\* C12: when the token cache file already exists at the start of the
\* tokenization, nothing is done: running the step again after a completed
\* pass walks no block and appends no record to the cache.
C12_RerunAppendsNothing ==
    reran =>
        /\ walked = <<>>
        /\ \A i, j \in 1..Len(written) : i < j => written[i] # written[j]

\* Number of UTF-8 bytes of one character, by the ranges of the standard.
Utf8Width(c) == IF c <= 127 THEN 1 ELSE IF c <= 2047 THEN 2 ELSE 3

RECURSIVE ByteLength(_)
\* B: the UTF-8 byte length of a text.
ByteLength(t) == IF t = <<>> THEN 0 ELSE Utf8Width(Head(t)) + ByteLength(Tail(t))

RECURSIVE Utf8Decode(_)
\* The text a sequence of well-formed UTF-8 bytes stands for.
Utf8Decode(bs) ==
    IF bs = <<>> THEN <<>>
    ELSE IF bs[1] < 128 THEN <<bs[1]>> \o Utf8Decode(SubSeq(bs, 2, Len(bs)))
    ELSE IF bs[1] < 224
         THEN <<(bs[1] - 192) * 64 + (bs[2] - 128)>> \o Utf8Decode(SubSeq(bs, 3, Len(bs)))
    ELSE <<(bs[1] - 224) * 4096 + (bs[2] - 128) * 64 + (bs[3] - 128)>>
            \o Utf8Decode(SubSeq(bs, 4, Len(bs)))

\* C13: for a text of B bytes of UTF-8, document_to_tokens returns B+1
\* tokens: the B bytes of the text in order, each in 0..255, then the sentinel
\* 256, which occurs nowhere else.
C13_BytesThenSentinel ==
    fpc = "return" =>
        LET B == ByteLength(arg) IN
        /\ Len(ret) = B + 1
        /\ \A i \in 1..B : ret[i] \in 0..255
        /\ Utf8Decode(SubSeq(ret, 1, B)) = arg
        /\ ret[B + 1] = EOS_TOKEN
        /\ \A i \in 1..B : ret[i] # EOS_TOKEN

\* Tokens were returned for a text that holds the character U+0100 and a
\* three-byte character.
C13_Witness ==
    /\ fpc = "return"
    /\ \E i, j \in 1..Len(arg) : arg[i] = 256 /\ arg[j] = 8364
    /\ Len(ret) > Len(arg) + 1

RECURSIVE Concat(_)
\* The records one after the other.
Concat(rs) == IF rs = <<>> THEN <<>> ELSE Head(rs) \o Concat(Tail(rs))

\* C14: what was appended to the cache is what the matching reader reads
\* back: load_tokens returns every record as save_tokens wrote it, in order,
\* and then None; the 16-bit reader decodes the concatenation of the records.
C14_CacheRoundTrip ==
    /\ fpc # "raised"
    /\ fpc = "return" =>
          IF arg = "prefixed"
          THEN ret = [i \in 1..(Len(recs) + 1) |->
                         IF i <= Len(recs) THEN List(recs[i]) ELSE None]
          ELSE ret = Concat(recs)

\* Three records, an empty one and the sentinel among them, were written in
\* the 16-bit layout and read back to the end of the file.
C14_Witness ==
    /\ fpc = "return"
    /\ arg = "raw"
    /\ Len(recs) = 3
    /\ recs[1] = <<65, 256>>
    /\ recs[2] = <<>>
    /\ Len(ret) >= 3

\* The pages that get a record: namespace 0, no redirect element, a title
\* whose first seven characters are not "list of" in any case, a body of at
\* least MIN_ARTICLE_CHARS characters.
Qualifies(p) ==
    /\ p.ns = 0
    /\ p.redirect = FALSE
    /\ ~(Len(p.title) >= 7 /\ [i \in 1..7 |-> Lower(p.title[i])] = ListOfPrefix)
    /\ ~(Len(p.text) < MIN_ARTICLE_CHARS)

RECURSIVE PageRecords(_)
\* The records of a sequence of pages, in page order.
PageRecords(ps) ==
    IF ps = <<>> THEN <<>>
    ELSE (IF Qualifies(Head(ps))
          THEN <<Append(Encode(clean_wikitext(Head(ps).text)), EOS_TOKEN)>>
          ELSE <<>>) \o PageRecords(Tail(ps))

RECURSIVE DumpRecords(_)
\* The records of the pages read from the blocks of a dump, in block order.
DumpRecords(d) ==
    IF d = <<>> THEN <<>> ELSE PageRecords(BlockPages(Head(d))) \o DumpRecords(Tail(d))

\* C15: after one uninterrupted pass from block 0 the cache holds one record
\* for every page read that has namespace 0, is no redirect, has a title not
\* starting with "list of" and a body of the minimum length, in order, and
\* nothing else; a record is the UTF-8 bytes of the cleaned body, then 256.
C15_OneRecordPerValidArticle ==
    (tpc = "t_done" /\ start_block = 0 /\ truns = 1) =>
        /\ FromBytes(cache) = Concat(DumpRecords(dump))
        /\ Len(written) = Len(DumpRecords(dump))
        /\ \A i \in 1..Len(written) :
              /\ Qualifies(BlockPages(dump[written[i].block + 1])[written[i].page])
              /\ \A j \in 1..Len(written) : written[i] = written[j] => i = j

\* The pass over the pages "Test" and "List of Things" is complete: one
\* record, that of "Test", was written.
C15_Witness ==
    /\ tpc = "t_done"
    /\ start_block = 0
    /\ dump = <<B_pair>>
    /\ written = <<[block |-> 0, page |-> 1]>>
    /\ FromBytes(cache) = <<65, 195, 169, 32, 98, 256>>

\* C16: a run restarted from the checkpoint the interrupt handler saved, the
\* consumer having received windows 1..k (base = k), emits exactly windows
\* k+1, k+2, ... of the uninterrupted run, wherever the interrupt landed; its
\* buffer holds every cache token between the windows and the cursor once.
C16_InterruptCheckpointExact ==
    runs > 1 =>
        /\ \A i \in 1..Len(emitted) :
              /\ base + i <= Len(Uninterrupted)
              /\ emitted[i] = Uninterrupted[base + i]
        /\ pc = "body" =>
              buffer = SubSeq(toks, base + Len(emitted) + 1, file_offset \div 2)

\* The windows of the uninterrupted article-indexed stream over the cache.
PtUninterrupted == PtStream(cache, 0, 0, 0, <<>>)

\* C17: a training_stream of parse-tokenize.py restarted from the checkpoint
\* (page_idx, buffer) delivered with the k-th window (base = k) emits exactly
\* the windows k+1, k+2, ... of the uninterrupted stream and ends when it
\* ends, also when that window came from the last article.
C17_ArticleReaderResumption ==
    /\ pc # "p_err"
    /\ \A i \in 1..Len(emitted) :
          /\ base + i <= Len(PtUninterrupted)
          /\ emitted[i] = PtUninterrupted[base + i]
    /\ pc = "done_eos" => base + Len(emitted) = Len(PtUninterrupted)

\* The records of block b have been appended: every qualifying page read from
\* it has an entry in the history of appends.
BlockAppended(b) ==
    \A i \in 1..Len(BlockPages(dump[b + 1])) :
        Qualifies(BlockPages(dump[b + 1])[i]) => [block |-> b, page |-> i] \in
            {written[k] : k \in 1..Len(written)}

\* C18: a persisted tokenization checkpoint c has 0 <= c <= number of blocks
\* and the driver has appended the records of every block below c; when a run
\* completes, after any crashes and resumes, the records of every block have
\* been appended at least once.
C18_NoBlockSkipped ==
    /\ (tokCkpt # Absent /\ JsonLoad(tokCkpt).ok) =>
          LET c == tok_load_checkpoint(tokCkpt).value IN
          /\ 0 <= c
          /\ c <= Len(dump)
          /\ \A b \in 0..(c - 1) : BlockAppended(b)
    /\ tpc = "t_done" => \A b \in 0..(Len(dump) - 1) : BlockAppended(b)

\* A run that crashed after the checkpoint of block 10 was resumed from it and
\* has completed the dump of 11 blocks.
C18_Witness ==
    /\ tpc = "t_done"
    /\ truns = 2
    /\ ~reran
    /\ start_block = CHECKPOINT_EVERY
    /\ Len(dump) = CHECKPOINT_EVERY + 1
    /\ Len(written) >= Len(dump)

\* Bytes per token of the 16-bit cache.
TokenWidth == 2

\* At a yield, with e windows emitted in total over all runs.
C19_AtYield ==
    pc = "body" =>
        LET e == base + Len(emitted) IN
        /\ file_offset % TokenWidth = 0
        /\ file_offset <= Len(cache)
        /\ file_offset >= load_checkpoint(ckptFile).file_offset
        /\ buffer = SubSeq(toks, e + 1, file_offset \div TokenWidth)
        /\ file_offset \div TokenWidth = e + Len(buffer)

\* C19: at every yield of the sliding-window reader, over fresh starts and
\* restarts from checkpoints saved at yields, file_offset is a multiple of 2,
\* is at most the cache size and not below the cursor resumed from, and the
\* buffer is exactly the cache tokens from the e-th (e windows emitted so far)
\* up to the cursor; within a stream file_offset never decreases.
C19_CursorBufferAccounting ==
    /\ []C19_AtYield
    /\ [][pc' # "start" => file_offset' >= file_offset]_vars

\* A restarted stream has yielded with the whole cache read and more than a
\* window's tail in the buffer.
C19_Witness ==
    /\ runs = 2
    /\ base >= 1
    /\ pc = "body"
    /\ Len(emitted) >= 1
    /\ file_offset = Len(cache)
    /\ Len(buffer) > CONTEXT_LEN
====
